---- MODULE Spec2Model ----
(***************************************************************************)
(* Model of the wildlife-speciesnet-detector batch engine:                 *)
(*   core/batch_processor.py        BatchProcessor, ProcessingStats        *)
(*   core/species_detector_direct.py  DetectionResult, SpeciesDetectorDirect*)
(*   gui/main_window.py             ProcessingThread, MainWindow           *)
(*                                                                         *)
(* One BatchProcessor object is shared by every thread.  A thread t that   *)
(* calls process_images is the collector of its run; the tasks it submits  *)
(* to its ThreadPoolExecutor are run by at most max_workers pool threads.  *)
(* Confidence scores are in tenths (0.8 is 8, 0.4 is 4).  An image is      *)
(* identified by its position in the input list of its run and carries the *)
(* list of prediction scores the backend reports for it.  Each run's CSV   *)
(* has a time-stamped name; run start times are taken to differ by at      *)
(* least one second, so a new run always gets a path with no file yet.     *)
(***************************************************************************)
EXTENDS Integers, Sequences, FiniteSets, TLC

\* ----------------------------------------------------------------- bounds
MaxImages == 3      \* longest input list of a run
MaxInterval == 2    \* largest intermediate_save_interval configured
MaxLimit == 2       \* largest consecutive_error_limit configured
MaxThreads == 2     \* threads that may call process_images
MaxFaults == 1      \* raising callbacks, failing writes and raising detector calls in all
MaxGuiImages == 1   \* longest list selected in the window
MaxPaths == 2       \* longest list given to detect_batch
MaxPreds == 2       \* most predictions in one answer of the backend
MaxFields == 8      \* most fields of a prediction label
MaxDets == 3        \* most detections of a result asked for its best one

\* ------------------------------------------------------ program constants
DefaultMaxWorkers == 2
DefaultErrorLimit == 3
DefaultSaveInterval == 100

Threads == 1..MaxThreads
\* the thread that calls process_images when there is only one
Caller == CHOOSE t \in Threads : \A u \in Threads : t <= u
Scores == {4, 8}
Thresholds == {5}
\* what the backend reports for one image: one prediction with its score
Predictions == {<<s>> : s \in Scores}

VARIABLES
    \* BatchProcessor fields
    is_running, stop_requested, stats, detector, file,
    intermediate_save_interval, consecutive_error_limit,
    confidence_threshold, progress_callback, error_callback,
    \* locals of process_images, per calling thread
    pc, image_paths, results, fut, finished, waiterQ, nyield, cur, exit,
    \* MainWindow and its ProcessingThreads
    start_btn, stop_btn, processing_thread, gui, tstate, completedQ,
    \* history
    flushes, lateCall, stopCalled, faults, writeFailed, afterStop, initFailed,
    errorCalls, isolatedFailures, passed,
    \* a SpeciesDetectorDirect, the last call made on it, and whether the
    \* module its mock fallback imports can be imported
    det, last, mock_importable

procVars == <<is_running, stop_requested, stats, detector, file>>
cfgVars == <<intermediate_save_interval, consecutive_error_limit,
             confidence_threshold, progress_callback, error_callback>>
localVars == <<pc, image_paths, results, fut, finished, waiterQ, nyield, cur, exit>>
cbVars == <<errorCalls, isolatedFailures, passed>>
histVars == <<flushes, lateCall, stopCalled, faults, writeFailed, afterStop, initFailed,
              errorCalls, isolatedFailures, passed>>
guiVars == <<start_btn, stop_btn, processing_thread, gui, tstate, completedQ>>
detVars == <<det, last, mock_importable>>
engineVars == <<procVars, cfgVars, localVars, guiVars, histVars>>
vars == <<procVars, cfgVars, localVars, guiVars, histVars, detVars>>

\* ------------------------------------------------------- DetectionResult
DetectionResult(image, detections) == [img |-> image, dets |-> detections]

has_detections(r) == Len(r.dets) > 0

\* a detection is a dict; the model keeps its confidence and, where a caller
\* supplies one, its species
Detection(confidence) == [confidence |-> confidence]

\* Python's None
None == [none |-> TRUE]

RECURSIVE MaxLast(_, _)
\* a scan that lets a later detection of equal confidence replace the best
MaxLast(dets, best) ==
    IF dets = <<>> THEN best
    ELSE MaxLast(Tail(dets),
                 IF Head(dets).confidence >= best.confidence THEN Head(dets) ELSE best)

RECURSIVE MaxFirst(_, _)
\* max(self.detections, key=lambda x: x.get('confidence', 0)): the scan of the
\* builtin replaces the best only by a strictly greater key, so the first of
\* the maxima is returned
MaxFirst(dets, best) ==
    IF dets = <<>> THEN best
    ELSE MaxFirst(Tail(dets),
                  IF Head(dets).confidence > best.confidence THEN Head(dets) ELSE best)

get_best_detection(r) ==
    IF r.dets = <<>> THEN None ELSE MaxFirst(Tail(r.dets), Head(r.dets))

\* ------------------------------------------------- SpeciesDetectorDirect
\* a comparison that drops a score equal to the threshold
_create_detection_from_prediction_strict(score, threshold) ==
    IF score > threshold THEN <<Detection(score)>> ELSE <<>>

\* a prediction becomes a detection only at or above the threshold
_create_detection_from_prediction(score, threshold) ==
    IF score >= threshold THEN <<Detection(score)>> ELSE <<>>

RECURSIVE _extract_detections_for_image(_, _)
_extract_detections_for_image(preds, threshold) ==
    IF preds = <<>> THEN <<>>
    ELSE _create_detection_from_prediction(Head(preds), threshold)
         \o _extract_detections_for_image(Tail(preds), threshold)

detect_single_image(image, preds, threshold) ==
    DetectionResult(image, _extract_detections_for_image(preds, threshold))

\* lines 383-403: the mock's detections go through the same comparison
_detect_with_mock(image, scores, threshold) ==
    LET kept == SelectSeq(scores, LAMBDA confidence : confidence >= threshold)
    IN  DetectionResult(image, [k \in 1..Len(kept) |-> Detection(kept[k])])

\* --------------------------------------- SpeciesDetectorDirect, the object
\* __init__; `model` tells whether the attribute self.model exists
SpeciesDetectorDirect(threshold) ==
    [is_initialized |-> FALSE, error_message |-> "", use_mock |-> FALSE,
     model |-> FALSE, confidence_threshold |-> threshold]

\* how a method call ends: the object it leaves, and the value it returns or
\* the fact that an exception left it; verified counts the runs of
\* _verify_speciesnet_working the call made
Returns(d, v, n) == [obj |-> d, ret |-> v, raised |-> FALSE, verified |-> n]
Raises(d, n) == [obj |-> d, ret |-> <<>>, raised |-> TRUE, verified |-> n]

InitError == "initialization error"

\* _initialize_mock: the import of line 163 raises ImportError when the
\* module wildlife_detector.core.species_detector_subprocess cannot be imported
_initialize_mock(d, importable, n) ==
    IF importable
    THEN Returns([d EXCEPT !.model = TRUE, !.is_initialized = TRUE], TRUE, n)
    ELSE Raises(d, n)

\* initialize: `working` is what _verify_speciesnet_working returns, which
\* catches every exception of its own; an exception of the first
\* _initialize_mock is caught at line 82 and the call repeated in the handler
initialize(d, working, importable) ==
    IF working
    THEN Returns([d EXCEPT !.is_initialized = TRUE], TRUE, 1)
    ELSE LET d1 == [d EXCEPT !.use_mock = TRUE]
             first == _initialize_mock(d1, importable, 1)
         IN  IF ~first.raised
             THEN first
             ELSE _initialize_mock([d1 EXCEPT !.error_message = InitError,
                                              !.use_mock = TRUE], importable, 1)

\* a cleanup that deletes self.model without looking whether it exists
cleanup_noGuard(d) ==
    IF d.model
    THEN Returns([d EXCEPT !.model = FALSE, !.is_initialized = FALSE], <<>>, 0)
    ELSE Raises(d, 0)

\* cleanup: `if hasattr(self, 'model'): del self.model`, is_initialized = False
cleanup(d) ==
    LET d1 == IF d.model THEN [d EXCEPT !.model = FALSE] ELSE d
    IN  Returns([d1 EXCEPT !.is_initialized = FALSE], <<>>, 0)

\* os.path.basename of a path given by its directory and its file name
basename(path) == path.name

\* lines 263-269: the scores of the predictions of the backend's answer whose
\* filepath has the base name of the target image, in the answer's order
PredictionsFor(predictions, target) ==
    LET mine == SelectSeq(predictions,
                          LAMBDA p : basename(p.filepath) = basename(target))
    IN  [k \in 1..Len(mine) |-> mine[k].prediction_score]

\* all the scores of an answer
ScoresOf(predictions) == [k \in 1..Len(predictions) |-> predictions[k].prediction_score]

\* detect_single_image on the object d: `outcome` is what the backend (the
\* subprocess, or the mock model on the opened image) does for this image,
\* ok = FALSE standing for a failed run or an unreadable image.  Every
\* exception below line 175 ends in an empty result; one of initialize at
\* line 172 leaves the method.
detect_single_image_on(d, image, outcome, working, importable) ==
    LET init == IF d.is_initialized THEN Returns(d, TRUE, 0)
                ELSE initialize(d, working, importable)
        d1 == init.obj
        empty == DetectionResult(image, <<>>)
    IN  IF init.raised THEN init
        ELSE IF ~init.ret THEN Returns(d1, empty, init.verified)
        ELSE IF d1.use_mock
             THEN IF importable /\ outcome.ok
                  THEN Returns(d1, _detect_with_mock(image, ScoresOf(outcome.predictions),
                                                     d1.confidence_threshold), init.verified)
                  ELSE Returns(d1, empty, init.verified)
             ELSE IF outcome.ok
                  THEN Returns(d1, detect_single_image(image,
                                       PredictionsFor(outcome.predictions, image),
                                       d1.confidence_threshold), init.verified)
                  ELSE Returns(d1, empty, init.verified)

RECURSIVE BatchLoop(_, _, _, _, _, _, _, _)
\* the loop of lines 414-420 from index i on
BatchLoop(d, image_paths_, backend, i, acc, working, importable, n) ==
    IF i > Len(image_paths_) THEN Returns(d, acc, n)
    ELSE LET one == detect_single_image_on(d, image_paths_[i], backend[i],
                                           working, importable)
         IN  IF one.raised THEN Raises(one.obj, n + one.verified)
             ELSE BatchLoop(one.obj, image_paths_, backend, i + 1,
                            Append(acc, one.ret), working, importable,
                            n + one.verified)

\* detect_batch without a progress callback: initialize if need be, return []
\* when it returns False, then one detect_single_image per path
detect_batch(d, image_paths_, backend, working, importable) ==
    LET init == IF d.is_initialized THEN Returns(d, TRUE, 0)
                ELSE initialize(d, working, importable)
    IN  IF init.raised THEN init
        ELSE IF ~init.ret THEN Returns(init.obj, <<>>, init.verified)
        ELSE BatchLoop(init.obj, image_paths_, backend, 1, <<>>,
                       working, importable, init.verified)

\* no call was made yet on the object d
NoCall(d) ==
    [op |-> "new", prev |-> "", arg |-> <<>>, before |-> d,
     ret |-> <<>>, raised |-> FALSE, verified |-> 0]

\* ------------------------------------------------ _parse_prediction_string
\* A label is given by its semicolon-separated fields; a text, by the parts it
\* is made of and what separates them.
Text(sep, parts) == [sep |-> sep, parts |-> parts]
\* a string with nothing to separate
Literal(str) == Text(";", <<str>>)
\* the label itself
RawString(label) == Text(";", label)

\* str.strip and str.capitalize on the field values used
strip(w) == CASE w = " aves" -> "aves" [] OTHER -> w
capitalize(w) == CASE w = "ursus" -> "Ursus" [] OTHER -> w

\* prediction_str.split(';') if ';' in prediction_str else []
split(label) == IF Len(label) > 1 THEN label ELSE <<>>

\* lines 307-349 for a string argument (the handler of lines 351-358 is for
\* arguments that are none)
_parse_prediction_string(label) ==
    LET parts == split(label)
        result == [species_name |-> Literal("Unknown"),
                   scientific_name |-> Literal("Unknown"),
                   category |-> "unknown",
                   common_name |-> ""]
    IN  IF Len(parts) >= 7
        THEN LET class_name == strip(parts[2])
                 genus == strip(parts[5])
                 species == strip(parts[6])
                 common_name == strip(parts[7])
                 category == CASE class_name = "aves" -> "bird"
                               [] class_name = "mammalia" -> "mammal"
                               [] class_name = "reptilia" -> "reptile"
                               [] OTHER -> IF class_name # "" THEN class_name ELSE "unknown"
                 name == IF genus # "" /\ species # ""
                         THEN Text(" ", <<capitalize(genus), species>>)
                         ELSE IF common_name # "" THEN Literal(common_name)
                         ELSE RawString(label)
             IN  [species_name |-> name, scientific_name |-> name,
                  category |-> category, common_name |-> common_name]
        ELSE result

\* ---------------------------------------------------------- ProcessingStats
ProcessingStats ==
    [processed_images |-> 0, successful_detections |-> 0, failed_images |-> 0,
     total_images |-> 0, consecutive_errors |-> 0, last_intermediate_save |-> 0]

\* a count that looks at the last result only
Successful_lastOnly(rs) ==
    IF rs # <<>> /\ has_detections(rs[Len(rs)]) THEN 1 ELSE 0

Successful(rs) == Cardinality({i \in 1..Len(rs) : has_detections(rs[i])})

\* a stats.update that adds the failures of this call to the ones counted before
StatsUpdate_addFailed(s, processed, successful, failed) ==
    [s EXCEPT !.processed_images = processed,
              !.successful_detections = successful,
              !.failed_images = s.failed_images + failed]

\* stats.update(processed, successful, failed, current_file)
StatsUpdate(s, processed, successful, failed) ==
    [s EXCEPT !.processed_images = processed,
              !.successful_detections = successful,
              !.failed_images = failed]

\* the counters process_images derives from the result list (lines 185-189)
CountResults(s, rs) ==
    StatsUpdate(s, Len(rs), Successful(rs), Len(rs) - Successful(rs))

\* lines 192-195
CountConsecutive(s, result) ==
    [s EXCEPT !.consecutive_errors =
        IF has_detections(result) THEN 0 ELSE s.consecutive_errors + 1]

\* ------------------------------------------------------------ result file
HeaderRow == [kind |-> "header", img |-> 0, conf |-> 0]
DataRow(r) ==
    [kind |-> "data", img |-> r.img,
     conf |-> IF has_detections(r) THEN get_best_detection(r).confidence ELSE 0]
NoFile == [exists |-> FALSE, rows |-> <<>>]

RECURSIVE RowsOf(_)
RowsOf(rs) == IF rs = <<>> THEN <<>> ELSE <<DataRow(Head(rs))>> \o RowsOf(Tail(rs))

Prefixes(s) == {SubSeq(s, 1, n) : n \in 0..Len(s)}

\* results[start_idx:]
NewResults(rs, s) == SubSeq(rs, s.last_intermediate_save + 1, Len(rs))

\* what one flush was to put into the file
FlushText(f, new) == IF f.exists THEN RowsOf(new) ELSE <<HeaderRow>> \o RowsOf(new)

\* _save_intermediate_results: the (file, stats, written) it can leave behind.
\* The write succeeds, or open() fails, or an exception ends the with block
\* after a proper prefix of the text reached the file.
_save_intermediate_results(rs, s, f) ==
    LET new == NewResults(rs, s)
        text == FlushText(f, new)
    IN  IF new = <<>>
        THEN {[file |-> f, stats |-> s, wrote |-> <<>>, failed |-> FALSE]}
        ELSE {[file |-> [exists |-> TRUE, rows |-> f.rows \o text],
               stats |-> [s EXCEPT !.last_intermediate_save = Len(rs)],
               wrote |-> <<Len(new)>>, failed |-> FALSE]}
             \cup {[file |-> f, stats |-> s, wrote |-> <<>>, failed |-> TRUE]}
             \cup {[file |-> [exists |-> TRUE, rows |-> f.rows \o p],
                    stats |-> s, wrote |-> <<>>, failed |-> TRUE] :
                        p \in Prefixes(text) \ {text}}

\* ------------------------------------------------------------- thread pool
Done(st) == st \in {"done", "empty", "failed"}
Active(t) == {i \in DOMAIN fut[t] : fut[t][i] \in {"checked", "detecting"}}
Queued(t) == {i \in DOMAIN fut[t] : fut[t][i] = "queued"}
AllDone(t) == \A i \in DOMAIN fut[t] : Done(fut[t][i])

\* max_workers = min(max_workers, len(image_paths))
max_workers(t) ==
    IF DefaultMaxWorkers < Len(image_paths[t]) THEN DefaultMaxWorkers
    ELSE Len(image_paths[t])

\* the pool threads live from the first submit to the end of shutdown(wait=True)
PoolAlive(t) == pc[t] \in {"as_completed", "collect", "body", "progress", "except", "shutdown"}
\* as_completed has installed its waiter on the futures
Waiting(t) == pc[t] \in {"collect", "body", "progress", "except"}

\* the result a finished future holds
FutureResult(t, i) ==
    IF fut[t][i] = "done"
    THEN detect_single_image(i, image_paths[t][i], confidence_threshold)
    ELSE DetectionResult(i, <<>>)

\* a task ends with state st: the future is set and the waiter, if any, is told
Finish(t, i, st) ==
    /\ fut' = [fut EXCEPT ![t][i] = st]
    /\ waiterQ' = [waiterQ EXCEPT ![t] = IF Waiting(t) THEN Append(@, i) ELSE @]

\* a task that goes on to the detector without a look at the stop flag
WorkerBegin_noCheck(t, i) ==
    /\ PoolAlive(t)
    /\ i \in Queued(t)
    /\ \A j \in Queued(t) : i <= j
    /\ Cardinality(Active(t)) < max_workers(t)
    /\ fut' = [fut EXCEPT ![t][i] = "checked"]
    /\ UNCHANGED waiterQ
    /\ UNCHANGED <<procVars, cfgVars, histVars>>
    /\ UNCHANGED <<pc, image_paths, results, finished, nyield, cur, exit>>
    /\ UNCHANGED guiVars
    /\ UNCHANGED detVars

\* a pool thread takes the oldest queued task and enters _process_single_image:
\* `if self.stop_requested: return DetectionResult(image_path, [])`
WorkerBegin(t, i) ==
    /\ PoolAlive(t)
    /\ i \in Queued(t)
    /\ \A j \in Queued(t) : i <= j
    /\ Cardinality(Active(t)) < max_workers(t)
    /\ IF stop_requested
       THEN Finish(t, i, "empty")
       ELSE /\ fut' = [fut EXCEPT ![t][i] = "checked"]
            /\ UNCHANGED waiterQ
    /\ UNCHANGED <<procVars, cfgVars, histVars>>
    /\ UNCHANGED <<pc, image_paths, results, finished, nyield, cur, exit>>
    /\ UNCHANGED guiVars
    /\ UNCHANGED detVars

\* `result = self.detector.detect_single_image(image_path)` starts; with no
\* initialized detector behind self.detector the call raises and the except
\* clause returns an empty result
WorkerDetect(t, i) ==
    /\ PoolAlive(t)
    /\ i \in DOMAIN fut[t]
    /\ fut[t][i] = "checked"
    /\ IF detector = "ready"
       THEN /\ fut' = [fut EXCEPT ![t][i] = "detecting"]
            /\ lateCall' = (lateCall \/ stop_requested)
            /\ UNCHANGED waiterQ
       ELSE /\ Finish(t, i, "failed")
            /\ UNCHANGED lateCall
    /\ UNCHANGED <<procVars, cfgVars, flushes, stopCalled, faults, writeFailed>>
    /\ UNCHANGED <<afterStop, initFailed>>
    /\ UNCHANGED <<pc, image_paths, results, finished, nyield, cur, exit>>
    /\ UNCHANGED cbVars
    /\ UNCHANGED guiVars
    /\ UNCHANGED detVars

\* the detector call returns
WorkerReturn(t, i) ==
    /\ PoolAlive(t)
    /\ i \in DOMAIN fut[t]
    /\ fut[t][i] = "detecting"
    /\ Finish(t, i, "done")
    /\ UNCHANGED <<procVars, cfgVars, histVars>>
    /\ UNCHANGED <<pc, image_paths, results, finished, nyield, cur, exit>>
    /\ UNCHANGED guiVars
    /\ UNCHANGED detVars

\* the detector call raises (the backend subprocess times out, the image is
\* unreadable, a module is missing): the exception is caught on the way, by
\* detect_single_image or by lines 339-341, and an empty result is returned
WorkerRaise(t, i) ==
    /\ PoolAlive(t)
    /\ i \in DOMAIN fut[t]
    /\ fut[t][i] = "detecting"
    /\ faults < MaxFaults
    /\ Finish(t, i, "failed")
    /\ faults' = faults + 1
    /\ UNCHANGED <<procVars, cfgVars, cbVars>>
    /\ UNCHANGED <<flushes, lateCall, stopCalled, writeFailed, afterStop, initFailed>>
    /\ UNCHANGED <<pc, image_paths, results, finished, nyield, cur, exit>>
    /\ UNCHANGED guiVars
    /\ UNCHANGED detVars
    /\ UNCHANGED <<pc, image_paths, results, finished, nyield, cur, exit>>
    /\ UNCHANGED guiVars
    /\ UNCHANGED detVars

\* ---------------------------------------------------------- process_images
\* no call of process_images by t is in progress: none was made, or the last
\* one returned or let an exception out
Idle(t) == pc[t] \in {"idle", "returned", "propagated"}

\* a process_images that sets is_running = True before it looks at the list
Call_runningFirst(t, paths) ==
    /\ Idle(t)
    /\ image_paths' = [image_paths EXCEPT ![t] = paths]
    /\ results' = [results EXCEPT ![t] = <<>>]
    /\ fut' = [fut EXCEPT ![t] = <<>>]
    /\ finished' = [finished EXCEPT ![t] = {}]
    /\ waiterQ' = [waiterQ EXCEPT ![t] = <<>>]
    /\ nyield' = [nyield EXCEPT ![t] = 0]
    /\ cur' = [cur EXCEPT ![t] = 0]
    /\ exit' = [exit EXCEPT ![t] = "none"]
    /\ stopCalled' = FALSE
    /\ afterStop' = 0
    /\ IF paths = <<>>
       THEN /\ pc' = [pc EXCEPT ![t] = "returned"]
            /\ is_running' = TRUE
       ELSE /\ pc' = [pc EXCEPT ![t] = "reset"]
            /\ is_running' = TRUE
    /\ UNCHANGED <<stop_requested, stats, detector, file, cfgVars>>
    /\ UNCHANGED <<flushes, lateCall, faults, writeFailed, initFailed>>
    /\ UNCHANGED cbVars
    /\ UNCHANGED guiVars
    /\ UNCHANGED detVars

\* lines 131-138: an empty list is rejected, otherwise is_running = True
Call(t, paths) ==
    /\ Idle(t)
    /\ image_paths' = [image_paths EXCEPT ![t] = paths]
    /\ results' = [results EXCEPT ![t] = <<>>]
    /\ fut' = [fut EXCEPT ![t] = <<>>]
    /\ finished' = [finished EXCEPT ![t] = {}]
    /\ waiterQ' = [waiterQ EXCEPT ![t] = <<>>]
    /\ nyield' = [nyield EXCEPT ![t] = 0]
    /\ cur' = [cur EXCEPT ![t] = 0]
    /\ exit' = [exit EXCEPT ![t] = "none"]
    /\ stopCalled' = FALSE
    /\ afterStop' = 0
    /\ IF paths = <<>>
       THEN /\ pc' = [pc EXCEPT ![t] = "returned"]
            /\ UNCHANGED is_running
       ELSE /\ pc' = [pc EXCEPT ![t] = "reset"]
            /\ is_running' = TRUE
    /\ UNCHANGED <<stop_requested, stats, detector, file, cfgVars>>
    /\ UNCHANGED <<flushes, lateCall, faults, writeFailed, initFailed>>
    /\ UNCHANGED cbVars
    /\ UNCHANGED guiVars
    /\ UNCHANGED detVars

\* a process_images that goes on to submit the images whatever
\* _initialize_detector returned
Reset_ignoreFailure(t) ==
    /\ pc[t] = "reset"
    /\ stop_requested' = FALSE
    /\ stats' = [ProcessingStats EXCEPT !.total_images = Len(image_paths[t])]
    /\ file' = NoFile
    /\ flushes' = <<>>
    /\ lateCall' = FALSE
    /\ writeFailed' = FALSE
    /\ errorCalls' = 0
    /\ isolatedFailures' = 0
    /\ passed' = <<>>
    /\ \E ok \in BOOLEAN :
        /\ detector' = IF ok THEN "ready" ELSE "created"
        /\ pc' = [pc EXCEPT ![t] = "submit"]
        /\ initFailed' = (initFailed \/ ~ok)
    /\ UNCHANGED <<is_running, cfgVars, stopCalled, afterStop, faults>>
    /\ UNCHANGED <<image_paths, results, fut, finished, waiterQ, nyield, cur, exit>>
    /\ UNCHANGED guiVars
    /\ UNCHANGED detVars

\* lines 139-152: the run state is reset and the detector initialized; when
\* initialization fails process_images returns [] from line 152
Reset(t) ==
    /\ pc[t] = "reset"
    /\ stop_requested' = FALSE
    /\ stats' = [ProcessingStats EXCEPT !.total_images = Len(image_paths[t])]
    /\ file' = NoFile
    /\ flushes' = <<>>
    /\ lateCall' = FALSE
    /\ writeFailed' = FALSE
    /\ errorCalls' = 0
    /\ isolatedFailures' = 0
    /\ passed' = <<>>
    /\ \E ok \in BOOLEAN :
        /\ detector' = IF ok THEN "ready" ELSE "created"
        /\ pc' = [pc EXCEPT ![t] = IF ok THEN "submit" ELSE "returned"]
        /\ initFailed' = (initFailed \/ ~ok)
    /\ UNCHANGED <<is_running, cfgVars, stopCalled, afterStop, faults>>
    /\ UNCHANGED <<image_paths, results, fut, finished, waiterQ, nyield, cur, exit>>
    /\ UNCHANGED guiVars
    /\ UNCHANGED detVars

\* lines 165-170: every path is submitted to the pool
Submit(t) ==
    /\ pc[t] = "submit"
    /\ fut' = [fut EXCEPT ![t] = [i \in 1..Len(image_paths[t]) |-> "queued"]]
    /\ pc' = [pc EXCEPT ![t] = "as_completed"]
    /\ UNCHANGED <<procVars, cfgVars, histVars>>
    /\ UNCHANGED <<image_paths, results, finished, waiterQ, nyield, cur, exit>>
    /\ UNCHANGED guiVars
    /\ UNCHANGED detVars

\* line 173: as_completed(future_to_path) starts; the futures already finished
\* are kept as a set and are yielded first, in the set's order
AsCompleted(t) ==
    /\ pc[t] = "as_completed"
    /\ finished' = [finished EXCEPT ![t] = {i \in DOMAIN fut[t] : Done(fut[t][i])}]
    /\ pc' = [pc EXCEPT ![t] = "collect"]
    /\ UNCHANGED <<procVars, cfgVars, histVars>>
    /\ UNCHANGED <<image_paths, results, fut, waiterQ, nyield, cur, exit>>
    /\ UNCHANGED guiVars
    /\ UNCHANGED detVars

\* lines 173-176 with future f yielded: break on a stop request
Yield(t, f) ==
    /\ nyield' = [nyield EXCEPT ![t] = @ + 1]
    /\ IF stop_requested
       THEN /\ pc' = [pc EXCEPT ![t] = "shutdown"]
            /\ exit' = [exit EXCEPT ![t] = "break"]
            /\ UNCHANGED cur
       ELSE /\ pc' = [pc EXCEPT ![t] = "body"]
            /\ cur' = [cur EXCEPT ![t] = f]
            /\ UNCHANGED exit

\* the for statement asks as_completed for the next future
NextFuture(t) ==
    /\ pc[t] = "collect"
    /\ IF finished[t] # {}
       THEN \E f \in finished[t] :
                /\ finished' = [finished EXCEPT ![t] = @ \ {f}]
                /\ Yield(t, f)
                /\ UNCHANGED waiterQ
       ELSE IF waiterQ[t] # <<>>
       THEN /\ waiterQ' = [waiterQ EXCEPT ![t] = Tail(@)]
            /\ Yield(t, Head(waiterQ[t]))
            /\ UNCHANGED finished
       ELSE /\ nyield[t] = Len(image_paths[t])
            /\ pc' = [pc EXCEPT ![t] = "shutdown"]
            /\ exit' = [exit EXCEPT ![t] = "exhausted"]
            /\ UNCHANGED <<finished, waiterQ, nyield, cur>>
    /\ UNCHANGED <<procVars, cfgVars, histVars>>
    /\ UNCHANGED <<image_paths, results, fut>>
    /\ UNCHANGED guiVars
    /\ UNCHANGED detVars

\* the flush outcomes the fault budget of the run still allows
Flush(rs, s, f) == {o \in _save_intermediate_results(rs, s, f) : o.failed => faults < MaxFaults}

\* a flush with outcome o
Flushed(o) ==
    /\ file' = o.file
    /\ stats' = o.stats
    /\ flushes' = flushes \o o.wrote
    /\ faults' = IF o.failed THEN faults + 1 ELSE faults
    /\ writeFailed' = (writeFailed \/ o.failed)

\* a breaker that trips only above the limit
LimitReached_above(s) == s.consecutive_errors > consecutive_error_limit

\* the circuit breaker of lines 198 and 224
LimitReached(s) == s.consecutive_errors >= consecutive_error_limit

\* line 208
SaveDue(processed) == processed % intermediate_save_interval = 0

\* lines 178-209: the result is appended and counted, the circuit breaker is
\* checked, and every intermediate_save_interval results are flushed
Body(t) ==
    /\ pc[t] = "body"
    /\ LET result == FutureResult(t, cur[t])
           rs == Append(results[t], result)
           s1 == CountConsecutive(CountResults(stats, rs), result)
       IN  /\ results' = [results EXCEPT ![t] = rs]
           /\ afterStop' = IF stopCalled THEN afterStop + 1 ELSE afterStop
           /\ isolatedFailures' =
                IF fut[t][cur[t]] = "failed" /\ ~LimitReached(s1)
                THEN isolatedFailures + 1 ELSE isolatedFailures
           /\ IF LimitReached(s1)
              THEN /\ stats' = s1
                   /\ stop_requested' = TRUE
                   /\ pc' = [pc EXCEPT ![t] = "shutdown"]
                   /\ exit' = [exit EXCEPT ![t] = "break"]
                   /\ cur' = [cur EXCEPT ![t] = 0]
                   /\ UNCHANGED <<file, flushes, faults, writeFailed>>
              ELSE /\ IF SaveDue(Len(rs))
                      THEN \E o \in Flush(rs, s1, file) : Flushed(o)
                      ELSE /\ stats' = s1
                           /\ UNCHANGED <<file, flushes, faults, writeFailed>>
                   /\ IF progress_callback
                      THEN /\ pc' = [pc EXCEPT ![t] = "progress"]
                           /\ UNCHANGED cur
                      ELSE /\ pc' = [pc EXCEPT ![t] = "collect"]
                           /\ cur' = [cur EXCEPT ![t] = 0]
                   /\ UNCHANGED <<stop_requested, exit>>
    /\ UNCHANGED <<is_running, detector, cfgVars, lateCall, stopCalled, initFailed>>
    /\ UNCHANGED <<errorCalls, passed>>
    /\ UNCHANGED <<image_paths, fut, finished, waiterQ, nyield>>
    /\ UNCHANGED guiVars
    /\ UNCHANGED detVars

\* ProcessingStats.get_progress_percentage: processed / total * 100, kept as
\* the exact fraction <<numerator, denominator>>; 0 when total is 0
get_progress_percentage(s) ==
    IF s.total_images > 0 THEN <<s.processed_images * 100, s.total_images>> ELSE <<0, 1>>

\* p <= q for two such fractions
PercentLeq(p, q) == p[1] * q[2] <= q[1] * p[2]

\* the counters a reader finds in a ProcessingStats object
Counters(s) ==
    [processed_images |-> s.processed_images,
     successful_detections |-> s.successful_detections,
     failed_images |-> s.failed_images]

\* lines 212-214: self.progress_callback(progress, image_path, self.stats)
\* returns or raises
Progress(t) ==
    /\ pc[t] = "progress"
    /\ \E raises \in {FALSE, faults < MaxFaults} :
        IF raises
        THEN /\ pc' = [pc EXCEPT ![t] = "except"]
             /\ faults' = faults + 1
             /\ UNCHANGED cur
        ELSE /\ pc' = [pc EXCEPT ![t] = "collect"]
             /\ cur' = [cur EXCEPT ![t] = 0]
             /\ UNCHANGED faults
    /\ passed' = [progress |-> get_progress_percentage(stats), stats |-> Counters(stats)]
    /\ UNCHANGED <<procVars, cfgVars, flushes, lateCall, stopCalled, writeFailed>>
    /\ UNCHANGED <<afterStop, initFailed, errorCalls, isolatedFailures>>
    /\ UNCHANGED <<image_paths, results, fut, finished, waiterQ, nyield, exit>>
    /\ UNCHANGED guiVars
    /\ UNCHANGED detVars

\* lines 219-234: the handler of an exception raised in the loop body; the
\* error callback it calls returns or raises
Except(t) ==
    /\ pc[t] = "except"
    /\ LET s1 == [stats EXCEPT !.consecutive_errors = @ + 1]
           empty == DetectionResult(cur[t], <<>>)
       IN  /\ stats' = s1
           /\ IF LimitReached(s1)
              THEN /\ stop_requested' = TRUE
                   /\ pc' = [pc EXCEPT ![t] = "shutdown"]
                   /\ exit' = [exit EXCEPT ![t] = "break"]
                   /\ UNCHANGED <<results, afterStop, errorCalls, isolatedFailures>>
              ELSE /\ UNCHANGED stop_requested
                   /\ isolatedFailures' = isolatedFailures + 1
                   /\ errorCalls' = IF error_callback THEN errorCalls + 1 ELSE errorCalls
                   /\ \E raises \in {FALSE, error_callback} :
                        IF raises
                        THEN /\ exit' = [exit EXCEPT ![t] = "raised"]
                             /\ pc' = [pc EXCEPT ![t] = "shutdown"]
                             /\ UNCHANGED <<results, afterStop>>
                        ELSE /\ results' = [results EXCEPT ![t] = Append(@, empty)]
                             /\ afterStop' = IF stopCalled THEN afterStop + 1 ELSE afterStop
                             /\ pc' = [pc EXCEPT ![t] = "collect"]
                             /\ UNCHANGED exit
    /\ cur' = [cur EXCEPT ![t] = 0]
    /\ UNCHANGED <<is_running, detector, file, cfgVars>>
    /\ UNCHANGED <<flushes, lateCall, stopCalled, faults, writeFailed, initFailed, passed>>
    /\ UNCHANGED <<image_paths, fut, finished, waiterQ, nyield>>
    /\ UNCHANGED guiVars
    /\ UNCHANGED detVars

\* a final save made only when the loop ran through every future
FinalSaveDue_onlyWhenComplete(rs, ex) == ex = "exhausted" /\ rs # <<>>

\* lines 236-238: `if results:` guards the final save, which an exception on
\* its way to the handler of line 244 skips
FinalSaveDue(rs, ex) == ex # "raised" /\ rs # <<>>

\* a pool that is left without waiting for its tasks
ExitPool_noWait(t) ==
    /\ pc[t] = "shutdown"
    /\ IF FinalSaveDue(results[t], exit[t])
       THEN \E o \in Flush(results[t], stats, file) : Flushed(o)
       ELSE UNCHANGED <<file, stats, flushes, faults, writeFailed>>
    /\ pc' = [pc EXCEPT ![t] = "finally"]
    /\ UNCHANGED <<is_running, stop_requested, detector, cfgVars>>
    /\ UNCHANGED <<lateCall, stopCalled, afterStop, initFailed>>
    /\ UNCHANGED <<image_paths, results, fut, finished, waiterQ, nyield, cur, exit>>
    /\ UNCHANGED cbVars
    /\ UNCHANGED guiVars
    /\ UNCHANGED detVars

\* the with block ends: shutdown(wait=True) waits for every submitted task;
\* then the final save
ExitPool(t) ==
    /\ pc[t] = "shutdown"
    /\ AllDone(t)
    /\ IF FinalSaveDue(results[t], exit[t])
       THEN \E o \in Flush(results[t], stats, file) : Flushed(o)
       ELSE UNCHANGED <<file, stats, flushes, faults, writeFailed>>
    /\ pc' = [pc EXCEPT ![t] = "finally"]
    /\ UNCHANGED <<is_running, stop_requested, detector, cfgVars>>
    /\ UNCHANGED <<lateCall, stopCalled, afterStop, initFailed>>
    /\ UNCHANGED <<image_paths, results, fut, finished, waiterQ, nyield, cur, exit>>
    /\ UNCHANGED cbVars
    /\ UNCHANGED guiVars
    /\ UNCHANGED detVars

\* a try statement with a finally clause and no except clause
Caught_none(ex) == FALSE

\* lines 244-245: `except Exception` catches the exception that left the loop
Caught(ex) == ex = "raised"

\* _cleanup_detector: cleanup() and self.detector = None
_cleanup_detector(d) == "None"

\* lines 247-253: is_running = False, the detector is cleaned up, and results
\* is returned unless an exception nothing caught is still on its way out
Finally(t) ==
    /\ pc[t] = "finally"
    /\ is_running' = FALSE
    /\ detector' = _cleanup_detector(detector)
    /\ pc' = [pc EXCEPT ![t] =
                IF exit[t] = "raised" /\ ~Caught(exit[t]) THEN "propagated" ELSE "returned"]
    /\ UNCHANGED <<stop_requested, stats, file, cfgVars, histVars>>
    /\ UNCHANGED <<image_paths, results, fut, finished, waiterQ, nyield, cur, exit>>
    /\ UNCHANGED guiVars
    /\ UNCHANGED detVars

\* BatchProcessor.stop_processing
BatchProcessor_stop_processing ==
    /\ stop_requested' = TRUE
    /\ stopCalled' = (stopCalled \/ (is_running /\ \E t \in Threads : ~Idle(t)))
    /\ UNCHANGED <<is_running, stats, detector, file, cfgVars, localVars>>
    /\ UNCHANGED <<flushes, lateCall, faults, writeFailed, afterStop, initFailed, cbVars>>

\* stop_processing called by a thread other than the caller of process_images
stop_processing ==
    /\ BatchProcessor_stop_processing
    /\ UNCHANGED guiVars
    /\ UNCHANGED detVars

is_processing == is_running

\* ------------------------------------------------------------------- runs
Inputs == UNION {[1..n -> Predictions] : n \in 0..MaxImages}

InitEngine ==
    /\ is_running = FALSE
    /\ stop_requested = FALSE
    /\ stats = ProcessingStats
    /\ detector = "None"
    /\ file = NoFile
    /\ confidence_threshold \in Thresholds
    /\ pc = [t \in Threads |-> "idle"]
    /\ image_paths = [t \in Threads |-> <<>>]
    /\ results = [t \in Threads |-> <<>>]
    /\ fut = [t \in Threads |-> <<>>]
    /\ finished = [t \in Threads |-> {}]
    /\ waiterQ = [t \in Threads |-> <<>>]
    /\ nyield = [t \in Threads |-> 0]
    /\ cur = [t \in Threads |-> 0]
    /\ exit = [t \in Threads |-> "none"]
    /\ start_btn = TRUE
    /\ stop_btn = FALSE
    /\ processing_thread = 0
    /\ gui = "idle"
    /\ tstate = [t \in Threads |-> "none"]
    /\ completedQ = 0
    /\ flushes = <<>>
    /\ lateCall = FALSE
    /\ stopCalled = FALSE
    /\ writeFailed = FALSE
    /\ afterStop = 0
    /\ initFailed = FALSE
    /\ errorCalls = 0
    /\ isolatedFailures = 0
    /\ passed = <<>>
    /\ det = SpeciesDetectorDirect(confidence_threshold)
    /\ last = NoCall(det)

\* a processor whose caller has registered both callbacks
Init ==
    /\ InitEngine
    /\ mock_importable = FALSE
    /\ faults = 0
    /\ intermediate_save_interval \in 1..MaxInterval
    /\ consecutive_error_limit \in 1..MaxLimit
    /\ progress_callback = TRUE
    /\ error_callback = TRUE

\* a single caller: process_images is called again only after it returned
Next ==
    \/ \E paths \in Inputs : Call(Caller, paths)
    \/ Reset(Caller)
    \/ Submit(Caller)
    \/ AsCompleted(Caller)
    \/ NextFuture(Caller)
    \/ Body(Caller)
    \/ Progress(Caller)
    \/ Except(Caller)
    \/ ExitPool(Caller)
    \/ Finally(Caller)
    \/ \E i \in 1..MaxImages : WorkerBegin(Caller, i)
    \/ \E i \in 1..MaxImages : WorkerDetect(Caller, i)
    \/ \E i \in 1..MaxImages : WorkerReturn(Caller, i)
    \/ \E i \in 1..MaxImages : WorkerRaise(Caller, i)
    \/ stop_processing

Spec == Init /\ [][Next]_vars

\* -------------------------------------------------------------- main window
isRunning(t) == tstate[t] \in {"started", "running"}

GuiInputs == {p \in Inputs : Len(p) \in 1..MaxGuiImages}

\* MainWindow.start_processing, on a click of the enabled start button: a new
\* ProcessingThread over the one BatchProcessor of the window is started
start_processing(t, files) ==
    /\ gui = "idle"
    /\ completedQ = 0
    /\ start_btn
    /\ ~isRunning(t)
    /\ start_btn' = FALSE
    /\ stop_btn' = TRUE
    /\ processing_thread' = t
    /\ tstate' = [tstate EXCEPT ![t] = "started"]
    /\ pc' = [pc EXCEPT ![t] = "idle"]
    /\ image_paths' = [image_paths EXCEPT ![t] = files]
    /\ UNCHANGED <<gui, completedQ, procVars, cfgVars, histVars>>
    /\ UNCHANGED <<results, fut, finished, waiterQ, nyield, cur, exit>>
    /\ UNCHANGED detVars

\* ProcessingThread.run, lines 44-45: the callbacks are registered
ThreadRun(t) ==
    /\ tstate[t] = "started"
    /\ tstate' = [tstate EXCEPT ![t] = "running"]
    /\ progress_callback' = TRUE
    /\ error_callback' = TRUE
    /\ UNCHANGED <<intermediate_save_interval, consecutive_error_limit, confidence_threshold>>
    /\ UNCHANGED <<start_btn, stop_btn, processing_thread, gui, completedQ>>
    /\ UNCHANGED <<procVars, localVars, histVars>>
    /\ UNCHANGED detVars

\* ProcessingThread.run, line 48: process_images(self.image_paths)
ThreadCall(t) ==
    /\ tstate[t] = "running"
    /\ pc[t] = "idle"
    /\ Call(t, image_paths[t])

\* ProcessingThread.run, line 51: processing_completed is emitted and run ends
ThreadFinish(t) ==
    /\ tstate[t] = "running"
    /\ pc[t] = "returned"
    /\ tstate' = [tstate EXCEPT ![t] = "finished"]
    /\ completedQ' = completedQ + 1
    /\ pc' = [pc EXCEPT ![t] = "idle"]
    /\ image_paths' = [image_paths EXCEPT ![t] = <<>>]
    /\ results' = [results EXCEPT ![t] = <<>>]
    /\ fut' = [fut EXCEPT ![t] = <<>>]
    /\ finished' = [finished EXCEPT ![t] = {}]
    /\ waiterQ' = [waiterQ EXCEPT ![t] = <<>>]
    /\ nyield' = [nyield EXCEPT ![t] = 0]
    /\ cur' = [cur EXCEPT ![t] = 0]
    /\ exit' = [exit EXCEPT ![t] = "none"]
    /\ UNCHANGED <<start_btn, stop_btn, processing_thread, gui>>
    /\ UNCHANGED <<procVars, cfgVars, histVars>>
    /\ UNCHANGED detVars

\* MainWindow.stop_processing up to the wait, on a click of the stop button
MainWindow_stop_processing ==
    /\ gui = "idle"
    /\ completedQ = 0
    /\ stop_btn
    /\ IF processing_thread # 0 /\ isRunning(processing_thread)
       THEN /\ BatchProcessor_stop_processing
            /\ gui' = "waiting"
            /\ UNCHANGED <<start_btn, stop_btn>>
       ELSE /\ start_btn' = TRUE
            /\ stop_btn' = FALSE
            /\ UNCHANGED <<gui, procVars, cfgVars, localVars, histVars>>
    /\ UNCHANGED <<processing_thread, tstate, completedQ>>
    /\ UNCHANGED detVars

\* processing_thread.wait(5000) returns, the thread finished or not, and the
\* buttons are set back (lines 446-450)
WaitReturns ==
    /\ gui = "waiting"
    /\ gui' = "idle"
    /\ start_btn' = TRUE
    /\ stop_btn' = FALSE
    /\ UNCHANGED <<processing_thread, tstate, completedQ>>
    /\ UNCHANGED <<procVars, cfgVars, localVars, histVars>>
    /\ UNCHANGED detVars

\* MainWindow.processing_completed, the slot of the queued signal
processing_completed ==
    /\ gui = "idle"
    /\ completedQ > 0
    /\ completedQ' = completedQ - 1
    /\ start_btn' = TRUE
    /\ stop_btn' = FALSE
    /\ UNCHANGED <<processing_thread, gui, tstate>>
    /\ UNCHANGED <<procVars, cfgVars, localVars, histVars>>
    /\ UNCHANGED detVars

\* the window's BatchProcessor: AppConfig defaults, no callbacks yet
InitGui ==
    /\ InitEngine
    /\ mock_importable = FALSE
    /\ faults = MaxFaults      \* nothing raises and no write fails in the window
    /\ intermediate_save_interval = DefaultSaveInterval
    /\ consecutive_error_limit = DefaultErrorLimit
    /\ progress_callback = FALSE
    /\ error_callback = FALSE

NextGui ==
    \/ \E t \in Threads, files \in GuiInputs : start_processing(t, files)
    \/ \E t \in Threads : ThreadRun(t)
    \/ \E t \in Threads : ThreadCall(t)
    \/ \E t \in Threads : Reset(t)
    \/ \E t \in Threads : Submit(t)
    \/ \E t \in Threads : AsCompleted(t)
    \/ \E t \in Threads : NextFuture(t)
    \/ \E t \in Threads : Body(t)
    \/ \E t \in Threads : Progress(t)
    \/ \E t \in Threads : ExitPool(t)
    \/ \E t \in Threads : Finally(t)
    \/ \E t \in Threads, i \in 1..MaxGuiImages : WorkerBegin(t, i)
    \/ \E t \in Threads, i \in 1..MaxGuiImages : WorkerDetect(t, i)
    \/ \E t \in Threads, i \in 1..MaxGuiImages : WorkerReturn(t, i)
    \/ \E t \in Threads : ThreadFinish(t)
    \/ MainWindow_stop_processing
    \/ WaitReturns
    \/ processing_completed

SpecGui == InitGui /\ [][NextGui]_vars

\* ------------------------------------------------------ end-to-end scenario
\* four images: the backend scores image 1 at 0.8 and image 3 at 0.4 and
\* reports nothing for images 2 and 4; the configuration is the default one
ScenarioPaths == << <<8>>, <<>>, <<4>>, <<>> >>
ScenarioIds == 1..Len(ScenarioPaths)

InitScenario ==
    /\ InitEngine
    /\ mock_importable = FALSE
    /\ faults = 0
    /\ intermediate_save_interval = DefaultSaveInterval
    /\ consecutive_error_limit = DefaultErrorLimit
    /\ progress_callback = TRUE
    /\ error_callback = TRUE

NextScenario ==
    \/ Call(Caller, ScenarioPaths)
    \/ Reset(Caller)
    \/ Submit(Caller)
    \/ AsCompleted(Caller)
    \/ NextFuture(Caller)
    \/ Body(Caller)
    \/ Progress(Caller)
    \/ Except(Caller)
    \/ ExitPool(Caller)
    \/ Finally(Caller)
    \/ \E i \in ScenarioIds : WorkerBegin(Caller, i)
    \/ \E i \in ScenarioIds : WorkerDetect(Caller, i)
    \/ \E i \in ScenarioIds : WorkerReturn(Caller, i)

SpecScenario == InitScenario /\ [][NextScenario]_vars

\* ----------------------------------------------------------------- adapter
\* A SpeciesDetectorDirect used on its own: its methods are called one after
\* the other, in any order, by one thread.
Dirs == {"a"}
Names == {"x.jpg", "y.jpg"}
Paths == {[dir |-> d, name |-> n] : d \in Dirs, n \in Names}
PathLists == UNION {[1..k -> Paths] : k \in 0..MaxPaths}

\* scores just below, at and just above a threshold
DetScores == UNION {{t - 1, t, t + 1} : t \in Thresholds}
\* one prediction of predictions.json, for a file of the temporary directory
Entries ==
    {[filepath |-> [dir |-> "tmp", name |-> n], prediction_score |-> s] :
        n \in Names, s \in DetScores}
\* what the backend does for one image: it fails, or answers with at most n
\* predictions in an order of its own
Outcomes(n) ==
    {[ok |-> FALSE, predictions |-> <<>>]}
    \cup {[ok |-> TRUE, predictions |-> a] : a \in UNION {[1..k -> Entries] : k \in 0..n}}

Classes == {"aves", " aves", "mammalia", "reptilia", "amphibia", ""}
Genera == {"ursus", ""}
Epithets == {"arctos", ""}
CommonNames == {"brown bear", ""}
\* UUID;class;order;family;genus;species;common_name, cut or extended to n fields
Label(n, class, genus, species, common) ==
    [k \in 1..n |-> CASE k = 1 -> "uuid"
                      [] k = 2 -> class
                      [] k = 3 -> "order"
                      [] k = 4 -> "family"
                      [] k = 5 -> genus
                      [] k = 6 -> species
                      [] k = 7 -> common
                      [] OTHER -> "extra"]
Labels ==
    {Label(n, c, g, s, k) :
        n \in 1..MaxFields, c \in Classes, g \in Genera, s \in Epithets, k \in CommonNames}

\* detections as a caller of DetectionResult may supply them
Species == {"Ardea alba", "Ursus arctos"}
Detections == [confidence : Scores, species : Species]
DetectionLists == UNION {[1..n -> Detections] : n \in 0..MaxDets}

\* the record of a call of the method op with arg that ended as out tells;
\* prev is the method called before a cleanup
CallRecord(op, arg, out) ==
    [op |-> op, prev |-> IF op = "cleanup" THEN last.op ELSE "",
     arg |-> arg, before |-> det,
     ret |-> out.ret, raised |-> out.raised, verified |-> out.verified]

\* the answers _verify_speciesnet_working can give when d is asked to initialize
Verifications(d) == IF d.is_initialized THEN {TRUE} ELSE BOOLEAN

Initialize ==
    \E working \in BOOLEAN :
        LET out == initialize(det, working, mock_importable)
        IN  /\ det' = out.obj
            /\ last' = CallRecord("initialize", working, out)
            /\ UNCHANGED <<mock_importable, engineVars>>

Cleanup ==
    LET out == cleanup(det)
    IN  /\ det' = out.obj
        /\ last' = CallRecord("cleanup", <<>>, out)
        /\ UNCHANGED <<mock_importable, engineVars>>

DetectSingle ==
    \E image \in Paths, outcome \in Outcomes(MaxPreds), working \in Verifications(det) :
        LET out == detect_single_image_on(det, image, outcome, working, mock_importable)
        IN  /\ det' = out.obj
            /\ last' = CallRecord("detect_single_image",
                                  [image |-> image, outcome |-> outcome], out)
            /\ UNCHANGED <<mock_importable, engineVars>>

DetectBatch ==
    \E paths \in PathLists, working \in Verifications(det) :
        \E backend \in [1..Len(paths) -> Outcomes(1)] :
            LET out == detect_batch(det, paths, backend, working, mock_importable)
            IN  /\ det' = out.obj
                /\ last' = CallRecord("detect_batch", paths, out)
                /\ UNCHANGED <<mock_importable, engineVars>>

Parse ==
    \E label \in Labels :
        /\ last' = CallRecord("_parse_prediction_string", label,
                              Returns(det, _parse_prediction_string(label), 0))
        /\ UNCHANGED <<det, mock_importable, engineVars>>

\* DetectionResult objects built by a caller and asked for their best
\* detection and for whether they have any
GetBestDetection ==
    \E detections \in DetectionLists :
        /\ last' = CallRecord("get_best_detection", detections,
                              Returns(det, get_best_detection(DetectionResult("x.jpg", detections)), 0))
        /\ UNCHANGED <<det, mock_importable, engineVars>>

HasDetections ==
    \E detections \in DetectionLists :
        /\ last' = CallRecord("has_detections", detections,
                              Returns(det, has_detections(DetectionResult("x.jpg", detections)), 0))
        /\ UNCHANGED <<det, mock_importable, engineVars>>

InitDetector ==
    /\ InitEngine
    /\ faults = 0
    /\ intermediate_save_interval = DefaultSaveInterval
    /\ consecutive_error_limit = DefaultErrorLimit
    /\ progress_callback = FALSE
    /\ error_callback = FALSE
    /\ mock_importable \in BOOLEAN

NextDetector ==
    \/ Initialize
    \/ Cleanup
    \/ DetectSingle
    \/ DetectBatch
    \/ Parse
    \/ GetBestDetection
    \/ HasDetections

SpecDetector == InitDetector /\ [][NextDetector]_vars

\* ------------------------------------------------------------- find_images
\* The paths a folder "r" may hold, in the order of their strings (code point
\* by code point): 'B' < 'a' < 's' < 't', and "r/s" is a prefix of "r/s/c.png".
PathOrder == <<"r/B.JPG", "r/a.txt", "r/s", "r/s/c.png", "r/t.webp">>
FsPaths == {PathOrder[k] : k \in 1..Len(PathOrder)}
rank(path) == CHOOSE k \in 1..Len(PathOrder) : PathOrder[k] = path
parent(path) == IF path = "r/s/c.png" THEN "r/s" ELSE "r"

\* Path.suffix and str.lower on these names
suffix(path) ==
    CASE path = "r/B.JPG" -> ".JPG"
      [] path = "r/a.txt" -> ".txt"
      [] path = "r/s/c.png" -> ".png"
      [] path = "r/t.webp" -> ".webp"
      [] OTHER -> ""
lower(w) == CASE w = ".JPG" -> ".jpg" [] OTHER -> w

supported_extensions == {".jpg", ".jpeg", ".png", ".bmp", ".tiff", ".webp"}

\* What is at a path: nothing, a regular file, a directory, or an entry that
\* its directory lists but that cannot be examined, because the directory
\* gives no search permission (stat raises PermissionError).
Kinds == {"absent", "file", "dir", "denied"}

\* The states of the file system: the folder is missing, cannot be listed, or
\* holds entries; an entry below "r/s" needs "r/s" to be a directory, and only
\* there is the search permission withheld.
FileSystems ==
    {fs \in [root : {"missing", "unreadable", "ok"}, at : [FsPaths -> Kinds]] :
        /\ fs.root # "ok" => \A p \in FsPaths : fs.at[p] = "absent"
        /\ \A p \in FsPaths : parent(p) = "r" => fs.at[p] # "denied"
        /\ fs.at["r/s"] # "dir" => fs.at["r/s/c.png"] = "absent"}

\* folder.rglob('*'): the entries below the folder; scandir of a missing or
\* unreadable folder yields nothing
rglob(fs) == {p \in FsPaths : fs.at[p] # "absent"}

\* the orders in which the directory scans may yield these entries
ScanOrders(fs) ==
    {order \in [1..Cardinality(rglob(fs)) -> rglob(fs)] :
        \A i, j \in DOMAIN order : i # j => order[i] # order[j]}

RECURSIVE insort(_, _)
\* the place of a path in a sorted list
insort(sorted_, path) ==
    IF sorted_ = <<>> THEN <<path>>
    ELSE IF rank(path) < rank(Head(sorted_)) THEN <<path>> \o sorted_
    ELSE <<Head(sorted_)>> \o insort(Tail(sorted_), path)

RECURSIVE sorted(_)
\* sorted(image_files): ascending in the order of the strings
sorted(image_files) ==
    IF image_files = <<>> THEN <<>>
    ELSE insort(sorted(Tail(image_files)), Head(image_files))

RECURSIVE ScanLoop(_, _, _)
\* lines 120-122: is_file() is asked first and raises for an entry that cannot
\* be examined; the handler of lines 127-129 then drops what was found
ScanLoop(fs, order, image_files) ==
    IF order = <<>> THEN [raised |-> FALSE, image_files |-> image_files]
    ELSE LET file_path == Head(order)
         IN  IF fs.at[file_path] = "denied"
             THEN [raised |-> TRUE, image_files |-> image_files]
             ELSE ScanLoop(fs, Tail(order),
                    IF fs.at[file_path] = "file"
                       /\ lower(suffix(file_path)) \in supported_extensions
                    THEN Append(image_files, file_path)
                    ELSE image_files)

\* find_images(folder_path) on the file system fs whose scans yield order
find_images(fs, order) ==
    LET scan == ScanLoop(fs, order, <<>>)
    IN  IF scan.raised THEN <<>> ELSE sorted(scan.image_files)

FindImages ==
    \E fs \in FileSystems :
        \E order \in ScanOrders(fs) :
            /\ last' = CallRecord("find_images", fs, Returns(det, find_images(fs, order), 0))
            /\ UNCHANGED <<det, mock_importable, engineVars>>

\* a second call on the file system of the call before; prev keeps what that
\* call returned
FindImagesAgain ==
    /\ last.op = "find_images"
    /\ \E order \in ScanOrders(last.arg) :
          /\ last' = [CallRecord("find_images again", last.arg,
                                 Returns(det, find_images(last.arg, order), 0))
                         EXCEPT !.prev = last.ret]
          /\ UNCHANGED <<det, mock_importable, engineVars>>

InitFiles ==
    /\ InitDetector
    /\ mock_importable = FALSE

NextFiles ==
    \/ FindImages
    \/ FindImagesAgain

SpecFiles == InitFiles /\ [][NextFiles]_vars

\* ------------------------------------------------------------------ claims
IsData(row) == row.kind = "data"
DataRows(f) == SelectSeq(f.rows, IsData)
Returned(t) == pc[t] = "returned"
\* the backend has nothing at or above the threshold for any image of the run
AllEmpty(t) ==
    \A i \in 1..Len(image_paths[t]) :
        ~has_detections(detect_single_image(i, image_paths[t][i], confidence_threshold))

\* C1: the data rows of the result file are in the order of the input list:
\* the j-th data row is the row of the j-th input path, also in a run cut short.
C1_RowsInInputOrder ==
    \A j \in 1..Len(DataRows(file)) : DataRows(file)[j].img = j

\* C2: when the backend finds nothing in any image of a run over at least
\* consecutive_error_limit images (no callback raised, no write failed, nobody
\* called stop_processing), the stop flag is set only with exactly
\* consecutive_error_limit results processed, and no detector call is started
\* with the stop flag set.
C2_BreakerStopsBackend ==
    (/\ pc[Caller] \notin {"idle", "reset", "returned"}
     /\ Len(image_paths[Caller]) >= consecutive_error_limit
     /\ AllEmpty(Caller)
     /\ faults = 0
     /\ ~stopCalled)
    => /\ stop_requested => stats.processed_images = consecutive_error_limit
       /\ ~lateCall

\* C3: at most one thread is inside process_images past its empty-list check.
C3_NoOverlappingRuns ==
    \A t1, t2 \in Threads : (~Idle(t1) /\ ~Idle(t2)) => t1 = t2

\* C4: a stop_processing call made while is_processing() is true keeps
\* stop_requested true until the run in progress has ended.
C4_StopNeverLost ==
    (~Idle(Caller) /\ stopCalled) => stop_requested

\* C5: after process_images has returned, is_processing() is false.
C5_IdleAfterReturn ==
    Returned(Caller) => ~is_processing

ExpectedFlushes(n, k) ==
    [j \in 1..((n + k - 1) \div k) |-> IF j * k <= n THEN k ELSE n - (j - 1) * k]

\* C7: a run over N images that ran its loop to the end and whose writes
\* succeeded leaves a file of one header row and N data rows, one per image,
\* written in the flushes ExpectedFlushes(N, interval).
C7_FlushCorrectness ==
    (Returned(Caller) /\ exit[Caller] = "exhausted" /\ ~writeFailed)
    => LET n == Len(image_paths[Caller])
           d == DataRows(file)
       IN  /\ Len(file.rows) = n + 1
           /\ file.rows[1] = HeaderRow
           /\ Len(d) = n
           /\ \A i, j \in 1..Len(d) : d[i].img = d[j].img => i = j
           /\ flushes = ExpectedFlushes(n, intermediate_save_interval)

\* C8: last_intermediate_save is the number of data rows in the file, so that
\* no flush writes a result that is in the file already.
C8_NoRewrite ==
    Len(DataRows(file)) = stats.last_intermediate_save

\* C9: the scenario run, with no callback raising and no write failing, ends
\* with successful = 1, failed = 3 and four data rows, of which only the row of
\* image 1 has its species fields populated.
C9_EndToEnd ==
    (Returned(Caller) /\ exit[Caller] # "none" /\ faults = 0)
    => /\ stats.successful_detections = 1
       /\ stats.failed_images = 3
       /\ Len(DataRows(file)) = 4
       /\ \A j \in 1..Len(DataRows(file)) :
            DataRows(file)[j].conf > 0 <=> DataRows(file)[j].img = 1

\* C10: whenever the progress callback is invoked,
\* processed_images = successful_detections + failed_images.
C10_CountInvariant ==
    \A t \in Threads :
        pc[t] = "progress" =>
            stats.processed_images = stats.successful_detections + stats.failed_images

\* the callback is invoked with images of both kinds counted
C10_Witness ==
    /\ pc[Caller] = "progress"
    /\ stats.successful_detections >= 1
    /\ stats.failed_images >= 1

\* C11: a run whose loop went through every future returns exactly one result
\* per input path: as many results as paths, and the path of each position once.
C11_OneResultPerPath ==
    (Returned(Caller) /\ exit[Caller] = "exhausted")
    => /\ Len(results[Caller]) = Len(image_paths[Caller])
       /\ \A i \in 1..Len(image_paths[Caller]) :
            Cardinality({j \in 1..Len(results[Caller]) : results[Caller][j].img = i}) = 1

\* C12: once stop_processing has set the stop flag during a run, the collector
\* appends at most one more result before it leaves the collection loop.
C12_StopWithinOneResult ==
    afterStop <= 1

\* C13: while the detector left by a failed initialization is in place, the
\* call that failed has returned (or the next call has not initialized yet),
\* no task was submitted, no result collected and no result file created.
C13_InitFailureAborts ==
    detector = "created"
    => /\ pc[Caller] \in {"returned", "reset"}
       /\ fut[Caller] = <<>>
       /\ results[Caller] = <<>>
       /\ ~file.exists

\* after a call whose initialization failed, a later call has initialized the
\* detector again and completed over all its images
C13_Witness ==
    /\ initFailed
    /\ Returned(Caller)
    /\ exit[Caller] = "exhausted"
    /\ Len(results[Caller]) = Len(image_paths[Caller])
    /\ Len(DataRows(file)) >= 1
    /\ ~is_running

\* C14: no call of process_images ends by letting an exception out to its
\* caller, whatever the detector, the callbacks and the file writes did.
C14_NeverPropagates ==
    \A t \in Threads : pc[t] # "propagated"

\* a run whose error callback raised has returned normally
C14_Witness ==
    /\ Returned(Caller)
    /\ exit[Caller] = "raised"
    /\ faults > 0
    /\ ~is_running


\* C16: the results the engine holds during a run are never more than one
\* flush interval's worth: what was flushed is released (stated for runs in
\* which no callback raised and no write failed).
C16_MemoryBounded ==
    faults = 0 => Len(results[Caller]) <= intermediate_save_interval

\* C17: processed_images stays between 0 and total_images.
C17_ProcessedWithinTotal ==
    /\ 0 <= stats.processed_images
    /\ stats.processed_images <= stats.total_images

\* the results of the images handled, one per image: an entry that repeats
\* the image of the entry before it is not another image
HandledImages(rs) ==
    SelectSeq([j \in 1..Len(rs) |-> [r |-> rs[j], first |-> j = 1 \/ rs[j].img # rs[j - 1].img]],
              LAMBDA e : e.first)

RECURSIVE TrailingEmpty(_)
\* how many of the most recently handled images in a row have no detections
TrailingEmpty(hs) ==
    IF hs = <<>> \/ has_detections(hs[Len(hs)].r) THEN 0
    ELSE 1 + TrailingEmpty(SubSeq(hs, 1, Len(hs) - 1))

\* C18: when the collector is done with an image, consecutive_errors is the
\* number of most recently handled images in a row without detections (0
\* after an image with detections, one more than before otherwise).
C18_ConsecutiveErrors ==
    pc[Caller] \in {"collect", "shutdown", "finally"}
    => stats.consecutive_errors = TrailingEmpty(HandledImages(results[Caller]))

\* C20: a result file that has rows has the header as its first row and no
\* other header row.
C20_OneHeaderFirst ==
    file.rows # <<>>
    => /\ file.rows[1] = HeaderRow
       /\ \A j \in 2..Len(file.rows) : file.rows[j] # HeaderRow


\* C19: a call of process_images with an empty list leaves is_running,
\* stop_requested, stats (the flush offset in it), the detector and the
\* result file as they were.
C19_EmptyListFrame ==
    [][Call(Caller, <<>>) => UNCHANGED <<is_running, stop_requested, stats, detector, file>>]_vars

\* an empty list was rejected after a run: the counters and the file of that
\* run are still there
C19_Witness ==
    /\ Returned(Caller)
    /\ image_paths[Caller] = <<>>
    /\ results[Caller] = <<>>
    /\ stats.processed_images > 0
    /\ file.exists
    /\ ~is_running

\* line 253: the whole value process_images hands back is the list `results`
ReturnValue(t) == results[t]

\* a list that a run of the same paths whose writes all succeed returns: one
\* result per path, each the detector's result for that path
CleanReturn(t, rs) ==
    /\ Len(rs) = Len(image_paths[t])
    /\ \A i \in 1..Len(image_paths[t]) :
         \E k \in 1..Len(rs) :
            rs[k] = detect_single_image(i, image_paths[t][i], confidence_threshold)

\* C21: a failed write of _save_intermediate_results does not abort the run,
\* and the value process_images returns then tells the caller that the file
\* may be incomplete: it is not a value that a run without a failed write
\* returns for the same paths.
C21_WriteFailureReported ==
    (Returned(Caller) /\ exit[Caller] # "none" /\ writeFailed)
        => ~CleanReturn(Caller, ReturnValue(Caller))

\* C22: the error callback is invoked exactly for the per-image exceptions
\* that do not trip the circuit breaker: once for each of them, never for the
\* one that brings consecutive_errors to consecutive_error_limit.
C22_ErrorCallbackPerFailure ==
    error_callback => errorCalls = isolatedFailures

\* C23: the stats value a progress callback was passed is a snapshot: the
\* counters its receiver reads from it later are those of the invocation.
C23_ProgressSnapshot ==
    passed # <<>> => Counters(stats) = passed.stats

\* C24: within one run processed_images, successful_detections and
\* failed_images never decrease from one state of the stats to the next, and
\* the percentage passed to a progress callback is at least the one passed to
\* the callback before it.
C24_CountersMonotonic ==
    [][pc[Caller] # "reset" =>
          /\ stats'.processed_images >= stats.processed_images
          /\ stats'.successful_detections >= stats.successful_detections
          /\ stats'.failed_images >= stats.failed_images
          /\ (passed # <<>> /\ passed' # <<>>)
                => PercentLeq(passed.progress, passed'.progress)]_vars

\* a progress callback is about to be passed counters that grew since the one
\* before it, with both successes and failures counted
C24_Witness ==
    /\ pc[Caller] = "progress"
    /\ passed # <<>>
    /\ stats.processed_images > passed.stats.processed_images
    /\ stats.successful_detections > 0
    /\ stats.failed_images > 0

\* C25: detect_batch(paths) returns a list as long as paths whose i-th result
\* is the one of paths[i], whatever the backend answers and whether or not
\* single detections fail.
C25_BatchPreservesPaths ==
    last.op = "detect_batch" =>
        /\ ~last.raised
        /\ Len(last.ret) = Len(last.arg)
        /\ \A i \in 1..Len(last.arg) : last.ret[i].img = last.arg[i]

\* the results the last call of the adapter handed out
Produced ==
    IF last.raised THEN <<>>
    ELSE IF last.op = "detect_batch" THEN last.ret
    ELSE IF last.op = "detect_single_image" THEN <<last.ret>>
    ELSE <<>>

\* the last call was a detect_single_image whose backend answered
Answered ==
    /\ last.op = "detect_single_image"
    /\ ~last.raised
    /\ last.arg.outcome.ok
    /\ det.use_mock => mock_importable

\* the scores the backend reported for the image of that call
Reported ==
    IF det.use_mock THEN ScoresOf(last.arg.outcome.predictions)
    ELSE PredictionsFor(last.arg.outcome.predictions, last.arg.image)

\* the confidences of a list of detections
ConfidencesOf(dets) == [k \in 1..Len(dets) |-> dets[k].confidence]

\* how often the score v occurs in the sequence of scores
Occurrences(scores, v) == Cardinality({k \in 1..Len(scores) : scores[k] = v})

\* C26: every detection of a result the adapter produces has a confidence at
\* or above confidence_threshold; a reported score equal to the threshold is
\* kept and one below it dropped, so that an image whose scores are all below
\* it has no detections.
C26_ThresholdFilter ==
    /\ \A k \in 1..Len(Produced) :
         \A j \in 1..Len(Produced[k].dets) :
            Produced[k].dets[j].confidence >= det.confidence_threshold
    /\ Answered =>
         /\ \A v \in DetScores :
              Occurrences(ConfidencesOf(last.ret.dets), v) =
                 IF v >= det.confidence_threshold THEN Occurrences(Reported, v) ELSE 0
         /\ (\A k \in 1..Len(Reported) : Reported[k] < det.confidence_threshold)
               => ~has_detections(last.ret)

\* the backend reported a score equal to the threshold and one below it, and
\* the result has a detection
C26_Witness ==
    /\ Answered
    /\ \E k \in 1..Len(Reported) : Reported[k] = det.confidence_threshold
    /\ \E k \in 1..Len(Reported) : Reported[k] < det.confidence_threshold
    /\ Len(last.ret.dets) = 1

\* C27: initialize() on an initialized detector returns success, leaves
\* is_initialized, use_mock and error_message as they were and does not
\* verify the backend again.
C27_InitializeIdempotent ==
    (last.op = "initialize" /\ last.before.is_initialized) =>
        /\ ~last.raised
        /\ last.ret = TRUE
        /\ det.is_initialized = last.before.is_initialized
        /\ det.use_mock = last.before.use_mock
        /\ det.error_message = last.before.error_message
        /\ last.verified = 0

\* C28: an initialize() whose backend verification fails, with or without a
\* working mock fallback, raises nothing: it returns with a usable detector
\* and an error_message that tells of the failure.
C28_InitializeNeverRaises ==
    (last.op = "initialize" /\ last.arg = FALSE) =>
        /\ ~last.raised
        /\ det.is_initialized
        /\ det.error_message # ""

\* C29: cleanup(), also when called twice in a row or on a detector that was
\* never initialized, raises nothing and leaves is_initialized false.
C29_CleanupIdempotent ==
    last.op = "cleanup" => (~last.raised /\ ~det.is_initialized)

\* a cleanup that followed a cleanup
C29_Witness ==
    /\ last.op = "cleanup"
    /\ last.prev = "cleanup"
    /\ ~last.raised
    /\ ~last.before.is_initialized

\* C30: for a label of fewer than 7 fields _parse_prediction_string returns
\* category 'unknown' and the label itself as species name and as scientific
\* name.
C30_MalformedLabel ==
    (last.op = "_parse_prediction_string" /\ Len(last.arg) < 7) =>
        /\ last.ret.category = "unknown"
        /\ last.ret.species_name = RawString(last.arg)
        /\ last.ret.scientific_name = RawString(last.arg)

\* the categories the detections of the adapter are documented to carry
Categories == {"bird", "mammal", "reptile", "unknown"}

\* C31: every detection produced by the adapter has a category in
\* {bird, mammal, reptile, unknown}, whatever the class field of the
\* prediction label is.
C31_ClosedCategories ==
    last.op = "_parse_prediction_string" => last.ret.category \in Categories

\* C32: get_best_detection() returns None exactly when the detection list is
\* empty, and otherwise the detection of maximum confidence, the first in list
\* order among those that share the maximum; has_detections() is true exactly
\* when the list is non-empty.
C32_BestDetection ==
    /\ last.op = "get_best_detection" =>
         LET detections == last.arg
         IN  /\ (last.ret = None) <=> (detections = <<>>)
             /\ detections # <<>> =>
                  \E i \in 1..Len(detections) :
                     /\ last.ret = detections[i]
                     /\ \A j \in 1..Len(detections) :
                           detections[j].confidence <= detections[i].confidence
                     /\ \A j \in 1..(i - 1) :
                           detections[j].confidence < detections[i].confidence
    /\ last.op = "has_detections" => (last.ret <=> (last.arg # <<>>))

\* a list whose maximum confidence is shared by two different detections, the
\* second of them last in the list, was asked for its best detection
C32_Witness ==
    /\ last.op = "get_best_detection"
    /\ Len(last.arg) = MaxDets
    /\ last.arg[1].confidence < last.arg[2].confidence
    /\ last.arg[2].confidence = last.arg[MaxDets].confidence
    /\ last.arg[2] # last.arg[MaxDets]
    /\ last.ret = last.arg[2]

\* the files of the file system fs that the claim lists
ImagesUnder(fs) ==
    {p \in FsPaths :
        /\ fs.at[p] = "file"
        /\ lower(suffix(p)) \in {".jpg", ".jpeg", ".png", ".bmp", ".tiff", ".webp"}}

\* C33: find_images returns exactly the files below the folder, at any depth,
\* whose extension without regard to case is one of .jpg .jpeg .png .bmp
\* .tiff .webp, sorted; it returns the empty list and does not raise when the
\* folder is missing or unreadable; a second call on the same file system
\* returns the same list.
C33_FindImages ==
    last.op \in {"find_images", "find_images again"} =>
        /\ ~last.raised
        /\ last.arg.root # "ok" => last.ret = <<>>
        /\ last.arg.root = "ok" =>
              /\ {last.ret[k] : k \in 1..Len(last.ret)} = ImagesUnder(last.arg)
              /\ \A i, j \in 1..Len(last.ret) :
                    i < j => rank(last.ret[i]) < rank(last.ret[j])
        /\ last.op = "find_images again" => last.ret = last.prev

\* C34: in a run whose detector was initialized the detector is cleaned up
\* once, by the finally clause, when every submitted task has finished, and a
\* task that is executing has an initialized detector behind self.detector.
C34_CleanupAfterWorkers ==
    [][/\ \A i \in Active(Caller) : detector = "ready"
       /\ (detector = "ready" /\ detector' # "ready") =>
             /\ pc[Caller] = "finally"
             /\ AllDone(Caller)
       /\ (pc[Caller] = "finally" /\ pc'[Caller] # "finally" /\ fut[Caller] # <<>>) =>
             /\ detector = "ready"
             /\ detector' = "None"]_vars

\* a run of MaxImages images whose detector was initialized has returned, one
\* of its tasks having called the detector, and the detector is gone
C34_Witness ==
    /\ pc[Caller] = "returned"
    /\ ~initFailed
    /\ Len(fut[Caller]) = MaxImages
    /\ \E i \in DOMAIN fut[Caller] : fut[Caller][i] = "done"
    /\ detector = "None"

\* the caller is past line 154, where the list of results is created, and not
\* yet out of process_images
InRun(t) ==
    pc[t] \in {"submit", "as_completed", "collect", "body", "progress", "except",
               "shutdown", "finally"}

\* C35: while no write has failed, last_intermediate_save stays between 0 and
\* the number of collected results, and when the progress callback is invoked
\* fewer than intermediate_save_interval results are collected but not yet
\* persisted.
C35_UnsavedBelowInterval ==
    (InRun(Caller) /\ ~writeFailed) =>
        /\ 0 <= stats.last_intermediate_save
        /\ stats.last_intermediate_save <= Len(results[Caller])
        /\ pc[Caller] = "progress" =>
              Len(results[Caller]) - stats.last_intermediate_save
                 < intermediate_save_interval

\* C36: when process_images has returned a non-empty list and no write failed,
\* the file has one data row per returned result, in the same order: row i
\* carries the path of result i, whichever way the run left its loop.
C36_FileMatchesResults ==
    (Returned(Caller) /\ exit[Caller] # "none" /\ ReturnValue(Caller) # <<>> /\ ~writeFailed)
    => /\ Len(DataRows(file)) = Len(ReturnValue(Caller))
       /\ \A i \in 1..Len(DataRows(file)) :
             DataRows(file)[i].img = ReturnValue(Caller)[i].img

C38_QueuedWorkIsSkipped ==
    [][\A i \in DOMAIN fut[Caller] :
          /\ (fut[Caller][i] = "queued" /\ stop_requested /\ i \in DOMAIN fut'[Caller])
                => /\ fut'[Caller][i] \in {"queued", "empty"}
                   /\ stop_requested'
          /\ (fut[Caller][i] = "empty" /\ i \in DOMAIN fut'[Caller])
                => fut'[Caller][i] = "empty"]_vars

\* after a stop_processing during the run, a task that had called the detector
\* is done and a task started later has returned its empty result
C38_Witness ==
    /\ stopCalled
    /\ stop_requested
    /\ \E i \in DOMAIN fut[Caller] : fut[Caller][i] = "done"
    /\ \E i \in DOMAIN fut[Caller] : fut[Caller][i] = "empty"

\* ------------------------------------------------------------- termination
\* The calling thread and the pool threads are scheduled, every detector call
\* returns (the backend subprocess runs under a timeout) and every callback
\* returns or raises: each step of a run that can be taken is taken in the
\* end.  Nothing obliges anybody to call process_images or stop_processing.
Fairness ==
    /\ WF_vars(Reset(Caller))
    /\ WF_vars(Submit(Caller))
    /\ WF_vars(AsCompleted(Caller))
    /\ WF_vars(NextFuture(Caller))
    /\ WF_vars(Body(Caller))
    /\ WF_vars(Progress(Caller))
    /\ WF_vars(Except(Caller))
    /\ WF_vars(ExitPool(Caller))
    /\ WF_vars(Finally(Caller))
    /\ WF_vars(\E i \in 1..MaxImages : WorkerBegin(Caller, i))
    /\ WF_vars(\E i \in 1..MaxImages : WorkerDetect(Caller, i))
    /\ WF_vars(\E i \in 1..MaxImages : WorkerReturn(Caller, i))

SpecLive == Init /\ [][Next]_vars /\ Fairness

\* C15: a run that has started ends: process_images returns and is_running
\* is false.
C15_RunTerminates ==
    (pc[Caller] = "reset") ~> (Returned(Caller) /\ ~is_running)
====
